---- MODULE Spec2Model ----
(***************************************************************************)
(* EPLQ: privacy-preserving location query engine.                         *)
(* Model of QueryProcessor (query cache, executeQuery), SpatialIndex       *)
(* (R-tree items, id -> record map, statistics), the pure functions of the *)
(* encryption and validation modules, and SearchService with uploadPOI.    *)
(***************************************************************************)
EXTENDS Integers, Sequences, FiniteSets, TLC

VARIABLES
    queryCache,    \* QueryProcessor.queryCache: Map in insertion order, <<[key, result, timestamp]>>
    cacheMaxSize,  \* QueryProcessor.cacheMaxSize
    cacheMaxAge,   \* QueryProcessor.cacheMaxAge
    now,           \* Date.now()
    ret,           \* the last call made and what it returned
    run,           \* cacheResult calls made since the cache was last known empty
    tree,          \* SpatialIndex.tree: the items of the R-tree, in leaf order
    poiMap,        \* SpatialIndex.poiMap: Map id -> record, <<[key, value]>>
    indexStats,    \* SpatialIndex.indexStats
    db,            \* the Firestore collection of POI documents, in upload order
    isInitialized, \* SearchService.isInitialized
    pending,       \* the search call waiting at await this.initialize(), or Null
    filtering      \* the search call whose executeQuery has resolved and whose
                   \* category filter has not run yet, or Null

cacheVars == <<queryCache, cacheMaxSize, cacheMaxAge, run>>
indexVars == <<tree, poiMap, indexStats>>
serviceVars == <<db, isInitialized, pending, filtering>>
vars == <<queryCache, cacheMaxSize, cacheMaxAge, now, ret, run, tree, poiMap, indexStats,
          db, isInitialized, pending, filtering>>

\* ---------------------------------------------------------------- bounds
MaxCap == 2        \* largest cacheMaxSize tried
MaxAge == 1        \* largest cacheMaxAge tried (clock ticks)

MaxId == 2         \* POI ids 1 .. MaxId
MaxCoord == 1      \* encrypted coordinates 0 .. MaxCoord on each axis
MaxQueryCount == 2 \* searches counted before the model stops searching
MaxCoordsLen == 5  \* longest encryptedCoords handed to evaluatePredicate
MaxPending == 2    \* calls in flight at await this.initialize()

\* items the tree holds before the model stops inserting
MaxTree == MaxId

\* the clock stops once an entry written at the start can have aged out and been rewritten
MaxTime == MaxAge + 2

\* ---------------------------------------------------------------- values
Null == [null |-> TRUE]

CacheKeys == 1 .. (MaxCap + 1)
\* result objects handed to cacheResult directly: { r: 1 }, { r: 2 }
Payloads == { [r |-> 1], [r |-> 2] }

\* ---------------------------------------------------------------- Map helpers
RECURSIVE IndexOfKey(_, _, _)
IndexOfKey(m, k, i) ==
    IF i > Len(m) THEN 0
    ELSE IF m[i].key = k THEN i
    ELSE IndexOfKey(m, k, i + 1)

MapHas(m, k) == IndexOfKey(m, k, 1) # 0

MapKeys(m) == { m[i].key : i \in 1 .. Len(m) }

MapEntry(m, k) == m[IndexOfKey(m, k, 1)]

\* Map.prototype.delete: the entry goes, the others keep their order
MapDelete(m, k) ==
    LET i == IndexOfKey(m, k, 1)
    IN  IF i = 0 THEN m
        ELSE [j \in 1 .. (Len(m) - 1) |-> IF j < i THEN m[j] ELSE m[j + 1]]

\* Map.prototype.set: an existing key keeps its position, a new key goes last
MapSet(m, k, e) ==
    LET i == IndexOfKey(m, k, 1)
    IN  IF i = 0 THEN Append(m, e)
        ELSE [m EXCEPT ![i] = e]

\* ---------------------------------------------------------------- cache
\* getCachedResult that never finds anything
getCachedResultValueNone(cache, maxAge, t, queryId) == Null

\* getCachedResult with the age test off by one (>= for >)
getCachedResultValueGe(cache, maxAge, t, queryId) ==
    LET i == IndexOfKey(cache, queryId, 1)
    IN  IF i = 0 THEN Null
        ELSE IF t - cache[i].timestamp >= maxAge THEN Null
        ELSE cache[i].result

\* getCachedResult: what is returned
getCachedResultValue(cache, maxAge, t, queryId) ==
    LET i == IndexOfKey(cache, queryId, 1)
    IN  IF i = 0 THEN Null
        ELSE IF t - cache[i].timestamp > maxAge THEN Null
        ELSE cache[i].result

\* getCachedResult: the branch taken
getCachedResultOutcome(cache, maxAge, t, queryId) ==
    LET i == IndexOfKey(cache, queryId, 1)
    IN  IF i = 0 THEN "miss"
        ELSE IF t - cache[i].timestamp > maxAge THEN "expired"
        ELSE "hit"

\* getCachedResult that forgets to delete the expired entry
getCachedResultCacheKeep(cache, maxAge, t, queryId) == cache

\* getCachedResult: the cache it leaves
getCachedResultCache(cache, maxAge, t, queryId) ==
    LET i == IndexOfKey(cache, queryId, 1)
    IN  IF i = 0 THEN cache
        ELSE IF t - cache[i].timestamp > maxAge THEN MapDelete(cache, queryId)
        ELSE cache

\* cacheResult with the capacity test off by one (> for >=)
cacheResultCacheGt(cache, maxSize, t, queryId, result) ==
    LET evicted == IF Len(cache) > maxSize /\ Len(cache) > 0
                   THEN MapDelete(cache, cache[1].key)
                   ELSE cache
    IN  MapSet(evicted, queryId, [key |-> queryId, result |-> result, timestamp |-> t])

\* cacheResult: the cache it leaves
cacheResultCache(cache, maxSize, t, queryId, result) ==
    LET evicted == IF Len(cache) >= maxSize /\ Len(cache) > 0
                   THEN MapDelete(cache, cache[1].key)
                   ELSE cache
    IN  MapSet(evicted, queryId, [key |-> queryId, result |-> result, timestamp |-> t])

\* ---------------------------------------------------------------- ghost: insert run
EmptyRun == [ok |-> TRUE, calls |-> << >>]
BrokenRun == [ok |-> FALSE, calls |-> << >>]

RunKeys(r) == { r.calls[i].key : i \in 1 .. Len(r.calls) }

\* the run goes on while the keys stay distinct and nothing else touches the cache
RunAfterCacheResult(r, k, res) ==
    IF r.ok /\ k \notin RunKeys(r)
    THEN [r EXCEPT !.calls = Append(@, [key |-> k, result |-> res])]
    ELSE BrokenRun

\* ---------------------------------------------------------------- actions
CacheResult(k, res) ==
    /\ queryCache' = cacheResultCache(queryCache, cacheMaxSize, now, k, res)
    /\ ret' = [op |-> "cacheResult", key |-> k, result |-> res]
    /\ run' = RunAfterCacheResult(run, k, res)
    /\ UNCHANGED <<serviceVars, cacheMaxSize, cacheMaxAge, now, indexVars>>

GetCachedResult(k) ==
    /\ queryCache' = getCachedResultCache(queryCache, cacheMaxAge, now, k)
    /\ ret' = [op |-> "getCachedResult", key |-> k,
               value |-> getCachedResultValue(queryCache, cacheMaxAge, now, k),
               outcome |-> getCachedResultOutcome(queryCache, cacheMaxAge, now, k)]
    /\ run' = IF queryCache' = queryCache THEN run ELSE BrokenRun
    /\ UNCHANGED <<serviceVars, cacheMaxSize, cacheMaxAge, now, indexVars>>

ClearCache ==
    /\ queryCache' = << >>
    /\ ret' = [op |-> "clearCache"]
    /\ run' = EmptyRun
    /\ UNCHANGED <<serviceVars, cacheMaxSize, cacheMaxAge, now, indexVars>>

Tick ==
    /\ now < MaxTime
    /\ now' = now + 1
    /\ UNCHANGED <<serviceVars, cacheVars, ret, indexVars>>

\* ---------------------------------------------------------------- POI records
Ids == 1 .. MaxId
Coords == 0 .. MaxCoord

Box(x1, y1, x2, y2) == [minX |-> x1, minY |-> y1, maxX |-> x2, maxY |-> y2]

\* The records the ingestion side hands over. encryptedName stands for the four
\* encrypted text fields: "sealed" is a ciphertext made under another key.
\* hasOriginal is whether originalLat / originalLng are defined.

\* a record stored with its bounding box
BoxedPOI(i) ==
    [id |-> i,
     encryptedBoundingBox |-> Box(0, 0, 1, 0),
     encryptedLocation |-> [encryptedCoords |-> <<0, 0, 0, 0>>],
     encryptedName |-> "ok", category |-> "restaurant",
     hasOriginal |-> TRUE, originalLat |-> 407128 + i, originalLng |-> -740060]

\* a record stored without a bounding box: indexed as the point of its coordinates
PointPOI(i) ==
    [id |-> i,
     encryptedBoundingBox |-> Null,
     encryptedLocation |-> [encryptedCoords |-> <<MaxCoord, MaxCoord, 0, 1>>],
     encryptedName |-> "ok", category |-> "cafe",
     hasOriginal |-> TRUE, originalLat |-> 407100, originalLng |-> -740060 + i]

\* a record that carries no encryptedLocation
UnlocatedPOI(i) ==
    [id |-> i,
     encryptedBoundingBox |-> Box(MaxCoord, MaxCoord, MaxCoord, MaxCoord),
     encryptedLocation |-> Null,
     encryptedName |-> "ok", category |-> "cafe",
     hasOriginal |-> FALSE, originalLat |-> 0, originalLng |-> 0]

\* a record whose text fields do not decrypt under this key
SealedPOI(i) ==
    [id |-> i,
     encryptedBoundingBox |-> Box(0, 0, MaxCoord, MaxCoord),
     encryptedLocation |-> [encryptedCoords |-> <<0, 0, 0, 0>>],
     encryptedName |-> "sealed", category |-> "restaurant",
     hasOriginal |-> FALSE, originalLat |-> 0, originalLng |-> 0]

POIs == { BoxedPOI(i) : i \in Ids } \cup { PointPOI(i) : i \in Ids }

\* the lists handed to buildIndex: none, one or two records, ids repeated or not
POILists ==
    { << >> } \cup { <<a>> : a \in POIs } \cup { <<a, b>> : a \in POIs, b \in POIs }

SeqToSet(q) == { q[i] : i \in 1 .. Len(q) }

\* ---------------------------------------------------------------- SpatialIndex
\* extractBoundingBox
extractBoundingBox(poi) ==
    IF poi.encryptedBoundingBox # Null
    THEN Box(poi.encryptedBoundingBox.minX, poi.encryptedBoundingBox.minY,
             poi.encryptedBoundingBox.maxX, poi.encryptedBoundingBox.maxY)
    ELSE LET coords == IF poi.encryptedLocation # Null
                       THEN poi.encryptedLocation.encryptedCoords
                       ELSE <<0, 0, 0, 0>>
         IN  Box(coords[1], coords[2], coords[1], coords[2])

\* { ...bbox, id: poi.id }
TreeItem(poi) ==
    LET bbox == extractBoundingBox(poi)
    IN  [id |-> poi.id, minX |-> bbox.minX, minY |-> bbox.minY,
         maxX |-> bbox.maxX, maxY |-> bbox.maxY]

\* RBush: two boxes intersect when they overlap or touch on both axes
intersects(a, b) ==
    /\ b.minX <= a.maxX
    /\ b.minY <= a.maxY
    /\ b.maxX >= a.minX
    /\ b.maxY >= a.minY

\* RBush.search: the items whose box intersects the search box
treeSearch(t, box) == SelectSeq(t, LAMBDA item : intersects(box, item))

RemoveAt(q, i) == [j \in 1 .. (Len(q) - 1) |-> IF j < i THEN q[j] ELSE q[j + 1]]

\* RBush.remove with (a, b) => a.id === b.id: one item of that id goes, the first
\* the traversal meets, which depends on the layout of the tree
treeRemove(t, id) ==
    LET hits == { i \in 1 .. Len(t) : t[i].id = id }
    IN  IF hits = { } THEN { t } ELSE { RemoveAt(t, i) : i \in hits }

\* countNodes(tree.data): the root, and one per item (a single leaf: up to 9 items)
countNodes(t) == 1 + Len(t)

RECURSIVE SetAll(_, _, _)
\* encryptedPOIs.map(poi => { this.poiMap.set(poi.id, poi); ... })
SetAll(m, pois, i) ==
    IF i > Len(pois) THEN m
    ELSE SetAll(MapSet(m, pois[i].id, [key |-> pois[i].id, value |-> pois[i]]), pois, i + 1)

EmptyStats ==
    [totalNodes |-> 0, totalPOIs |-> 0, lastBuildTime |-> Null, queryCount |-> 0]

\* search without the per-axis Math.min / Math.max
searchBoxAsGiven(encryptedBounds) ==
    Box(encryptedBounds.encryptedMin[1], encryptedBounds.encryptedMin[2],
        encryptedBounds.encryptedMax[1], encryptedBounds.encryptedMax[2])

\* search: the normalised search box
searchBox(encryptedBounds) ==
    LET lo == encryptedBounds.encryptedMin
        hi == encryptedBounds.encryptedMax
        Min(a, b) == IF a <= b THEN a ELSE b
        Max(a, b) == IF a >= b THEN a ELSE b
    IN  Box(Min(lo[1], hi[1]), Min(lo[2], hi[2]), Max(lo[1], hi[1]), Max(lo[2], hi[2]))

\* search: candidates.map(item => this.poiMap.get(item.id)).filter(Boolean)
searchResults(t, m, encryptedBounds) ==
    LET candidates == treeSearch(t, searchBox(encryptedBounds))
        known == SelectSeq(candidates, LAMBDA item : MapHas(m, item.id))
    IN  [i \in 1 .. Len(known) |-> MapEntry(m, known[i].id).value]

\* getAll: Array.from(this.poiMap.values())
getAllValue(m) == [i \in 1 .. Len(m) |-> m[i].value]

AllBounds ==
    { [encryptedMin |-> <<x1, y1>>, encryptedMax |-> <<x2, y2>>] :
        x1 \in Coords, y1 \in Coords, x2 \in Coords, y2 \in Coords }

\* performance.now() differences seen by buildIndex
BuildTimes == { 1 }

\* buildIndex: what the method does to the index and what it returns
buildIndex(encryptedPOIs, buildTime) ==
    /\ tree' = [i \in 1 .. Len(encryptedPOIs) |-> TreeItem(encryptedPOIs[i])]
    /\ poiMap' = SetAll(<< >>, encryptedPOIs, 1)
    /\ indexStats' = [totalNodes |-> countNodes(tree'),
                      totalPOIs |-> Len(encryptedPOIs),
                      lastBuildTime |-> [ms |-> buildTime],
                      queryCount |-> 0]
    /\ ret' = [op |-> "buildIndex", pois |-> encryptedPOIs, value |-> indexStats']

BuildIndex(encryptedPOIs, buildTime) ==
    /\ buildIndex(encryptedPOIs, buildTime)
    /\ UNCHANGED <<serviceVars, cacheVars, now>>

Insert(encryptedPOI) ==
    /\ Len(tree) < MaxTree
    /\ poiMap' = MapSet(poiMap, encryptedPOI.id,
                        [key |-> encryptedPOI.id, value |-> encryptedPOI])
    /\ tree' = Append(tree, TreeItem(encryptedPOI))
    /\ indexStats' = [indexStats EXCEPT !.totalPOIs = @ + 1]
    /\ ret' = [op |-> "insert", poi |-> encryptedPOI]
    /\ UNCHANGED <<serviceVars, cacheVars, now>>

\* remove without the early return for an unknown id
RemoveUnchecked(poiId) ==
    /\ tree' \in treeRemove(tree, poiId)
    /\ poiMap' = MapDelete(poiMap, poiId)
    /\ indexStats' = [indexStats EXCEPT !.totalPOIs = @ - 1]
    /\ ret' = [op |-> "remove", id |-> poiId, value |-> MapHas(poiMap, poiId)]
    /\ UNCHANGED <<serviceVars, cacheVars, now>>

\* remove that takes the item out of the tree and leaves the record in poiMap
RemoveTreeOnly(poiId) ==
    /\ IF ~ MapHas(poiMap, poiId)
       THEN /\ ret' = [op |-> "remove", id |-> poiId, value |-> FALSE]
            /\ UNCHANGED <<tree, poiMap, indexStats>>
       ELSE /\ tree' \in treeRemove(tree, poiId)
            /\ poiMap' = poiMap
            /\ indexStats' = [indexStats EXCEPT !.totalPOIs = @ - 1]
            /\ ret' = [op |-> "remove", id |-> poiId, value |-> TRUE]
    /\ UNCHANGED <<serviceVars, cacheVars, now>>

Remove(poiId) ==
    /\ IF ~ MapHas(poiMap, poiId)
       THEN /\ ret' = [op |-> "remove", id |-> poiId, value |-> FALSE]
            /\ UNCHANGED <<tree, poiMap, indexStats>>
       ELSE /\ tree' \in treeRemove(tree, poiId)
            /\ poiMap' = MapDelete(poiMap, poiId)
            /\ indexStats' = [indexStats EXCEPT !.totalPOIs = @ - 1]
            /\ ret' = [op |-> "remove", id |-> poiId, value |-> TRUE]
    /\ UNCHANGED <<serviceVars, cacheVars, now>>

\* search that does not count the query
SearchUncounted(encryptedBounds) ==
    /\ indexStats.queryCount < MaxQueryCount
    /\ indexStats' = indexStats
    /\ ret' = [op |-> "search", value |-> searchResults(tree, poiMap, encryptedBounds)]
    /\ UNCHANGED <<serviceVars, tree, poiMap, cacheVars, now>>

Search(encryptedBounds) ==
    /\ indexStats.queryCount < MaxQueryCount
    /\ indexStats' = [indexStats EXCEPT !.queryCount = @ + 1]
    /\ ret' = [op |-> "search", value |-> searchResults(tree, poiMap, encryptedBounds)]
    /\ UNCHANGED <<serviceVars, tree, poiMap, cacheVars, now>>

GetAll ==
    /\ ret' = [op |-> "getAll", value |-> getAllValue(poiMap)]
    /\ UNCHANGED <<serviceVars, indexVars, cacheVars, now>>

GetStats ==
    /\ ret' = [op |-> "getStats", value |-> indexStats]
    /\ UNCHANGED <<serviceVars, indexVars, cacheVars, now>>

Clear ==
    /\ tree' = << >>
    /\ poiMap' = << >>
    /\ indexStats' = EmptyStats
    /\ ret' = [op |-> "clear"]
    /\ UNCHANGED <<serviceVars, cacheVars, now>>

\* ---------------------------------------------------------------- index specification
InitIndexVars ==
    /\ tree = << >>
    /\ poiMap = << >>
    /\ indexStats = EmptyStats

\* a SearchService as constructed, over an empty collection
InitServiceVars ==
    /\ db = << >>
    /\ isInitialized = FALSE
    /\ pending = << >>
    /\ filtering = Null

InitIndex ==
    /\ queryCache = << >>
    /\ cacheMaxSize = MaxCap
    /\ cacheMaxAge = MaxAge
    /\ now = 0
    /\ ret = [op |-> "new"]
    /\ run = EmptyRun
    /\ InitIndexVars
    /\ InitServiceVars

NextIndex ==
    \/ \E P \in POILists, d \in BuildTimes : BuildIndex(P, d)
    \/ \E poi \in POIs : Insert(poi)
    \/ \E id \in Ids : Remove(id)
    \/ \E b \in AllBounds : Search(b)
    \/ GetAll
    \/ GetStats
    \/ Clear

SpecIndex == InitIndex /\ [][NextIndex]_vars

\* ---------------------------------------------------------------- cache specification
InitCache ==
    /\ queryCache = << >>
    /\ cacheMaxSize \in 1 .. MaxCap
    /\ cacheMaxAge \in 1 .. MaxAge
    /\ now = 0
    /\ ret = [op |-> "new"]
    /\ run = EmptyRun
    /\ InitIndexVars
    /\ InitServiceVars

NextCache ==
    \/ \E k \in CacheKeys, res \in Payloads : CacheResult(k, res)
    \/ \E k \in CacheKeys : GetCachedResult(k)
    \/ ClearCache
    \/ Tick

SpecCache == InitCache /\ [][NextCache]_vars

\* ---------------------------------------------------------------- QueryProcessor
\* Query inputs: lat and lng in 1/10000 degree, radiusKm in 1/100 km.
Queries ==
    { [lat |-> 407128, lng |-> -740060, radiusKm |-> 500],
      [lat |-> 408000, lng |-> -740060, radiusKm |-> 500] }

\* options: an absent useCache or decrypt counts as true, limit 0 is no limit
QueryOptions == [useCache : BOOLEAN, decrypt : BOOLEAN, limit : {0, 1}]

\* Math.floor in place of Math.round
RoundDivDown(x, d) == x \div d

\* Math.round(x / d): the nearest integer, halves upwards
RoundDiv(x, d) == (2 * x + d) \div (2 * d)

\* generateQueryId: lat and lng rounded to 1/1000 degree, radius to 1/10 km
generateQueryId(lat, lng, radius) ==
    <<RoundDiv(lat, 10), RoundDiv(lng, 10), RoundDiv(radius, 10)>>

EarthCircumferenceKm == 40075

\* The token: encryptLocation multiplies by the key matrix, pads with a random
\* coefficient and adds noise, so the two corners come out in either order; the
\* query vector carries a clock-based factor.
TokenBounds ==
    { [encryptedMin |-> <<0, 0>>, encryptedMax |-> <<0, 0>>],
      [encryptedMin |-> <<MaxCoord, MaxCoord>>, encryptedMax |-> <<0, 0>>] }

QueryVectors == { <<1, 1, 1, 1, 1, 1>> }

\* expiresAt: Date.now() + 300000, the clock read as milliseconds
TokenLifetimeMs == 300000

\* generateQueryToken. radiusNormalized is radiusKm / 40075, kept as the fraction
\* num / den (radiusKm is in 1/100 km). timestamp and expiresAt come from two
\* separate Date.now() calls: t and tExpiry.
generateQueryToken(q, encryptedQuery, encryptedBounds, t, tExpiry) ==
    [encryptedQuery |-> encryptedQuery,
     encryptedBounds |-> encryptedBounds,
     radiusNormalized |-> [num |-> q.radiusKm, den |-> 100 * EarthCircumferenceKm],
     timestamp |-> t,
     expiresAt |-> tExpiry + TokenLifetimeMs]

RECURSIVE computeInnerProductFrom(_, _, _)
computeInnerProductFrom(a, b, i) ==
    IF i > Len(a) \/ i > Len(b) THEN 0
    ELSE a[i] * b[i] + computeInnerProductFrom(a, b, i + 1)

\* computeInnerProduct: over the shorter of the two vectors
computeInnerProduct(a, b) == computeInnerProductFrom(a, b, 1)

\* Array.prototype.slice(0, n)
sliceTo(a, n) == SubSeq(a, 1, IF Len(a) < n THEN Len(a) ELSE n)

evaluatePredicateStrict(encryptedPOI, queryToken) ==
    LET innerProduct == computeInnerProduct(encryptedPOI.encryptedCoords,
                                            sliceTo(queryToken.encryptedQuery, 4))
        rn == queryToken.radiusNormalized
        threshold == ((rn.num * rn.num) \div rn.den) \div (2 * rn.den)
    IN  innerProduct < threshold

\* evaluatePredicate: innerProduct <= radiusNormalized * radiusNormalized * 0.5.
\* Inner products are whole numbers here, so the threshold num^2 / (2 den^2) is
\* compared rounded down.
evaluatePredicate(encryptedPOI, queryToken) ==
    LET innerProduct == computeInnerProduct(encryptedPOI.encryptedCoords,
                                            sliceTo(queryToken.encryptedQuery, 4))
        rn == queryToken.radiusNormalized
        threshold == ((rn.num * rn.num) \div rn.den) \div (2 * rn.den)
    IN  innerProduct <= threshold

Abs(x) == IF x < 0 THEN -x ELSE x

\* calculateApproxDistance: 0 without the original coordinates; the great-circle
\* distance is stood for by the sum of the two coordinate differences
calculateApproxDistance(poi, queryLat, queryLng) ==
    IF ~ poi.hasOriginal \/ poi.originalLat = 0 \/ poi.originalLng = 0
    THEN 0
    ELSE Abs(poi.originalLat - queryLat) + Abs(poi.originalLng - queryLng)

\* { ...decryptPOI(poi), distance }
decryptedWithDistance(poi, q) ==
    [id |-> poi.id, name |-> "plain", category |-> poi.category,
     distance |-> calculateApproxDistance(poi, q.lat, q.lng)]

RECURSIVE InsertByDistance(_, _, _)
InsertByDistance(sorted, x, i) ==
    IF i > Len(sorted) THEN Append(sorted, x)
    ELSE IF x.distance < sorted[i].distance
         THEN SubSeq(sorted, 1, i - 1) \o <<x>> \o SubSeq(sorted, i, Len(sorted))
         ELSE InsertByDistance(sorted, x, i + 1)

RECURSIVE SortByDistanceFrom(_, _, _)
SortByDistanceFrom(q, i, sorted) ==
    IF i > Len(q) THEN sorted
    ELSE SortByDistanceFrom(q, i + 1, InsertByDistance(sorted, q[i], 1))

\* results.sort((a, b) => a.distance - b.distance): ascending, stable
sortByDistance(q) == SortByDistanceFrom(q, 1, << >>)

\* results.slice(0, options.limit) when options.limit is truthy
applyLimit(results, limit) ==
    IF limit # 0 /\ Len(results) > limit THEN SubSeq(results, 1, limit) ELSE results

\* the limit applied before the sort
limitThenRank(decrypted, limit) == sortByDistance(applyLimit(decrypted, limit))

\* results.sort(...) and then results.slice(0, options.limit)
rankAndLimit(decrypted, limit) == applyLimit(sortByDistance(decrypted), limit)

\* the cache used whatever options.useCache says
useCacheAlways(options) == TRUE

\* options.useCache !== false
useCacheEnabled(options) == options.useCache

failedResultBare(queryId, message) ==
    [success |-> FALSE, queryId |-> queryId, error |-> message]

\* the catch block's result
failedResult(queryId, message) ==
    [success |-> FALSE, queryId |-> queryId, error |-> message, results |-> << >>]

\* try { ... return queryResult } catch (error) { return the failed result }
catchAll(queryId, thrown, queryResult) ==
    IF thrown = "none" THEN queryResult ELSE failedResult(queryId, thrown)

\* executeQuery from the token on, up to the await: what it computes
\* (thrown is "none" or the message of the exception that ended it)
queryRun(q, options, token) ==
    LET queryId == generateQueryId(q.lat, q.lng, q.radiusKm)
        candidates == searchResults(tree, poiMap, token.encryptedBounds)
        unlocated == { i \in 1 .. Len(candidates) : candidates[i].encryptedLocation = Null }
        located == SelectSeq(candidates, LAMBDA poi : poi.encryptedLocation # Null)
        matchingPOIs == SelectSeq(located,
                            LAMBDA poi : evaluatePredicate(poi.encryptedLocation, token))
        sealed == { i \in 1 .. Len(matchingPOIs) : matchingPOIs[i].encryptedName = "sealed" }
        decrypted == [i \in 1 .. Len(matchingPOIs) |-> decryptedWithDistance(matchingPOIs[i], q)]
        results == IF options.decrypt THEN rankAndLimit(decrypted, options.limit)
                   ELSE applyLimit(matchingPOIs, options.limit)
        thrown == IF unlocated # { } THEN "Cannot read properties of undefined"
                  ELSE IF options.decrypt /\ sealed # { } THEN "Decryption failed"
                  ELSE "none"
        stages == <<"token", "search", "evaluate">>
                  \o (IF unlocated # { } THEN << >>
                      ELSE (IF options.decrypt THEN <<"decrypt">> ELSE << >>)
                           \o (IF options.decrypt /\ sealed # { } THEN << >>
                               ELSE (IF options.decrypt THEN <<"rank">> ELSE << >>)
                                    \o (IF options.limit # 0 THEN <<"limit">> ELSE << >>)
                                    \o (IF useCacheEnabled(options)
                                        THEN <<"cacheStore">> ELSE << >>)
                                    \o <<"log">>))
    IN  [thrown |-> thrown,
         stages |-> stages,
         queryResult |->
            [success |-> TRUE, queryId |-> queryId, results |-> results,
             metadata |-> [totalCandidates |-> Len(candidates),
                           matchingCount |-> Len(matchingPOIs),
                           returnedCount |-> Len(results)]]]

\* initialize: spatialIndex.buildIndex(encryptedPOIs). The processor is initialized
\* once, before or after its first queries.
Initialize(encryptedPOIs, buildTime) ==
    /\ indexStats.lastBuildTime = Null
    /\ BuildIndex(encryptedPOIs, buildTime)

\* how await EPLQLogger.logQuery(...) settles; it is reached only when nothing
\* has thrown before it
logQueryRejects(thrownBefore) == IF thrownBefore = "none" THEN BOOLEAN ELSE { FALSE }

\* executeQuery. After await EPLQLogger.logQuery(...) the call touches no state
\* and only returns, so the call is one step.
executeQuery(q, options) ==
    LET queryId == generateQueryId(q.lat, q.lng, q.radiusKm)
        reads == useCacheEnabled(options)
        cached == IF reads
                  THEN getCachedResultValue(queryCache, cacheMaxAge, now, queryId)
                  ELSE Null
        afterRead == IF reads
                     THEN getCachedResultCache(queryCache, cacheMaxAge, now, queryId)
                     ELSE queryCache
    IN  /\ UNCHANGED <<cacheMaxSize, cacheMaxAge, now, tree, poiMap>>
        /\ run' = BrokenRun
        /\ IF cached # Null
           THEN /\ ret' = [op |-> "executeQuery", query |-> q, thrown |-> "none",
                           stages |-> << >>, value |-> cached]
                /\ queryCache' = afterRead
                /\ indexStats' = indexStats
           ELSE /\ indexStats.queryCount < MaxQueryCount
                /\ indexStats' = [indexStats EXCEPT !.queryCount = @ + 1]
                /\ \E encryptedQuery \in QueryVectors, encryptedBounds \in TokenBounds :
                      LET token == generateQueryToken(q, encryptedQuery, encryptedBounds, now, now)
                          computed == queryRun(q, options, token)
                      IN  /\ queryCache' =
                                IF computed.thrown = "none" /\ useCacheEnabled(options)
                                THEN cacheResultCache(afterRead, cacheMaxSize, now,
                                                      queryId, computed.queryResult)
                                ELSE afterRead
                          /\ \E logRejects \in logQueryRejects(computed.thrown) :
                                LET thrown == IF logRejects THEN "log failed"
                                              ELSE computed.thrown
                                IN  ret' = [op |-> "executeQuery", query |-> q,
                                            options |-> options,
                                            thrown |-> thrown,
                                            stages |-> computed.stages,
                                            value |-> catchAll(queryId, thrown,
                                                               computed.queryResult)]

\* executeQuery called on the processor directly
ExecuteQuery(q, options) ==
    /\ executeQuery(q, options)
    /\ UNCHANGED serviceVars

\* the index contents the processor is initialized with
QueryPOILists ==
    { <<BoxedPOI(1), BoxedPOI(MaxId)>>,
      <<SealedPOI(1), UnlocatedPOI(MaxId)>> }

Init ==
    /\ queryCache = << >>
    /\ cacheMaxSize = MaxCap
    /\ cacheMaxAge = MaxAge
    /\ now = 0
    /\ ret = [op |-> "new"]
    /\ run = BrokenRun
    /\ InitIndexVars
    /\ InitServiceVars

Next ==
    \/ \E P \in QueryPOILists : Initialize(P, 1)
    \/ \E q \in Queries, options \in QueryOptions : ExecuteQuery(q, options)
    \/ ClearCache
    \/ Tick

Spec == Init /\ [][Next]_vars

\* ---------------------------------------------------------------- functions
\* JavaScript values handed to the validators
Num(n) == [type |-> "number", num |-> n]
NaN == [type |-> "NaN"]
Undefined == [type |-> "undefined"]
\* a string that starts with the digits of n, and one that starts with no number
StrNum(n) == [type |-> "string", text |-> "digits and more", leading |-> n]
StrWord == [type |-> "string", text |-> "abc"]

\* parseFloat: a number is itself, a string gives its leading number, anything
\* else NaN
parseFloat(v) ==
    IF v.type = "number" THEN v
    ELSE IF v.type = "string" /\ "leading" \in DOMAIN v THEN Num(v.leading)
    ELSE NaN

\* validateRadius(radius, maxRadius = 50); radii are in 1/100 km
DefaultMaxRadiusKm == 50

validateRadiusZeroOk(radius, maxRadius) ==
    LET radiusKm == parseFloat(radius)
        max == IF maxRadius = Undefined THEN 100 * DefaultMaxRadiusKm ELSE maxRadius.num
    IN  IF radiusKm = NaN THEN [valid |-> FALSE, error |-> "Radius must be a number"]
        ELSE IF radiusKm.num < 0 THEN [valid |-> FALSE, error |-> "Radius must be positive"]
        ELSE IF radiusKm.num > max
             THEN [valid |-> FALSE, error |-> "Radius cannot exceed maxRadius km"]
        ELSE [valid |-> TRUE, value |-> radiusKm.num]

validateRadius(radius, maxRadius) ==
    LET radiusKm == parseFloat(radius)
        max == IF maxRadius = Undefined THEN 100 * DefaultMaxRadiusKm ELSE maxRadius.num
    IN  IF radiusKm = NaN THEN [valid |-> FALSE, error |-> "Radius must be a number"]
        ELSE IF radiusKm.num <= 0 THEN [valid |-> FALSE, error |-> "Radius must be positive"]
        ELSE IF radiusKm.num > max
             THEN [valid |-> FALSE, error |-> "Radius cannot exceed maxRadius km"]
        ELSE [valid |-> TRUE, value |-> radiusKm.num]

RadiusInputs ==
    { Num(n) : n \in { -500, 0, 1, 5000, 5001, 7500, 10000, 10001 } }
        \cup { StrNum(500), StrNum(5001), StrWord, Undefined, NaN }

MaxRadiusInputs == { Undefined, Num(10000) }

ValidateRadius(radius, maxRadius) ==
    /\ ret' = [op |-> "validateRadius", radius |-> radius, maxRadius |-> maxRadius,
               value |-> validateRadius(radius, maxRadius)]
    /\ UNCHANGED <<serviceVars, cacheVars, indexVars, now>>

\* generateQueryId inputs: lat and lng in 1/10000 degree around a rounding tie,
\* radius in 1/100 km
QueryIdLats == { 407124, 407125, 407126 }
QueryIdLngs == { -740066, -740065, -740064 }
QueryIdRadii == { 494, 495, 500 }

GenerateQueryId(lat, lng, radius) ==
    /\ ret' = [op |-> "generateQueryId", lat |-> lat, lng |-> lng, radius |-> radius,
               value |-> generateQueryId(lat, lng, radius)]
    /\ UNCHANGED <<serviceVars, cacheVars, indexVars, now>>

\* how far the clock moves between the two Date.now() calls of generateQueryToken
ClockAdvances == { 0, 1 }

GenerateQueryToken(q, elapsed) ==
    /\ now + elapsed <= MaxTime
    /\ now' = now + elapsed
    /\ \E encryptedQuery \in QueryVectors, encryptedBounds \in TokenBounds :
          ret' = [op |-> "generateQueryToken", query |-> q,
                  value |-> generateQueryToken(q, encryptedQuery, encryptedBounds,
                                               now, now')]
    /\ UNCHANGED <<serviceVars, cacheVars, indexVars>>

\* evaluatePredicate inputs: encryptedCoords of 3 .. MaxCoordsLen components, query
\* vectors of the token's 6, radiusNormalized as a fraction
PredicateCoords == UNION { [1 .. n -> { -1, 1 }] : n \in 3 .. MaxCoordsLen }

PredicateTokens ==
    { [encryptedQuery |-> v, radiusNormalized |-> [num |-> n, den |-> 1]] :
        v \in { <<1, 1, 1, 1, 1, 1>>, <<2, -1, 0, 1, 5, 5>> }, n \in 0 .. 2 }

EvaluatePredicate(encryptedCoords, queryToken) ==
    /\ ret' = [op |-> "evaluatePredicate", coords |-> encryptedCoords, token |-> queryToken,
               value |-> evaluatePredicate([encryptedCoords |-> encryptedCoords],
                                           queryToken)]
    /\ UNCHANGED <<serviceVars, cacheVars, indexVars, now>>

\* parseInt(hash.substring(0, 8), 16): a 32-bit number, kept as its two 16-bit
\* halves <<high, low>> (four hex digits each)
HalfWord == 16 ^ 4
HashPrefixHalves == { 0, 1, HalfWord - 1 }
HashPrefixes == HashPrefixHalves \X HashPrefixHalves

\* 0xFFFFFFFF
AllOnes32 == <<HalfWord - 1, HalfWord - 1>>

\* a < b on 32-bit numbers
Less32(a, b) == a[1] < b[1] \/ (a[1] = b[1] /\ a[2] < b[2])

\* a cell of encryptionMatrix and of the extended matrix: the number divided by
\* 0xFFFFFFFF, kept as the fraction num / den
matrixCell(hashPrefix) == [num |-> hashPrefix, den |-> AllOnes32]

MatrixCell(hashPrefix) ==
    /\ ret' = [op |-> "matrixCell", hashPrefix |-> hashPrefix,
               value |-> matrixCell(hashPrefix)]
    /\ UNCHANGED <<serviceVars, cacheVars, indexVars, now>>

\* records handed to calculateApproxDistance: with both original coordinates, on
\* the equator, on the prime meridian, and without original coordinates
DistancePOIs ==
    { [hasOriginal |-> TRUE, originalLat |-> 407128, originalLng |-> -740060],
      [hasOriginal |-> TRUE, originalLat |-> 0, originalLng |-> -740060],
      [hasOriginal |-> TRUE, originalLat |-> 407128, originalLng |-> 0],
      [hasOriginal |-> FALSE, originalLat |-> 0, originalLng |-> 0] }

CalculateApproxDistance(poi, q) ==
    /\ ret' = [op |-> "calculateApproxDistance", poi |-> poi, query |-> q,
               value |-> calculateApproxDistance(poi, q.lat, q.lng)]
    /\ UNCHANGED <<serviceVars, cacheVars, indexVars, now>>

InitFunctions ==
    /\ queryCache = << >>
    /\ cacheMaxSize = MaxCap
    /\ cacheMaxAge = MaxAge
    /\ now = 0
    /\ ret = [op |-> "new"]
    /\ run = EmptyRun
    /\ InitIndexVars
    /\ InitServiceVars

NextFunctions ==
    \/ \E radius \in RadiusInputs, maxRadius \in MaxRadiusInputs :
          ValidateRadius(radius, maxRadius)
    \/ \E lat \in QueryIdLats, lng \in QueryIdLngs, radius \in QueryIdRadii :
          GenerateQueryId(lat, lng, radius)
    \/ \E q \in Queries, elapsed \in ClockAdvances : GenerateQueryToken(q, elapsed)
    \/ \E c \in PredicateCoords, t \in PredicateTokens : EvaluatePredicate(c, t)
    \/ \E hashPrefix \in HashPrefixes : MatrixCell(hashPrefix)
    \/ \E poi \in DistancePOIs, q \in Queries : CalculateApproxDistance(poi, q)
    \/ Tick

SpecFunctions == InitFunctions /\ [][NextFunctions]_vars

\* ---------------------------------------------------------------- SearchService, POIManager
\* latitudes and longitudes handed to the validators are in 1/10000 degree
validateLatitude(lat) ==
    LET latitude == parseFloat(lat)
    IN  IF latitude = NaN THEN [valid |-> FALSE, error |-> "Latitude must be a number"]
        ELSE IF latitude.num < -900000 \/ latitude.num > 900000
             THEN [valid |-> FALSE, error |-> "Latitude must be between -90 and 90"]
        ELSE [valid |-> TRUE, value |-> latitude.num]

validateLongitude(lng) ==
    LET longitude == parseFloat(lng)
    IN  IF longitude = NaN THEN [valid |-> FALSE, error |-> "Longitude must be a number"]
        ELSE IF longitude.num < -1800000 \/ longitude.num > 1800000
             THEN [valid |-> FALSE, error |-> "Longitude must be between -180 and 180"]
        ELSE [valid |-> TRUE, value |-> longitude.num]

\* a || b: b when a is undefined, NaN, 0 or the empty string
Falsy(a) == a = Undefined \/ a = NaN \/ a = Num(0) \/ a = [type |-> "string", text |-> ""]
orElse(a, b) == IF Falsy(a) THEN b ELSE a

\* the constructor's settings with no environment overrides, in km
DefaultQueryRadiusKm == 5
MaxQueryRadiusKm == 50
defaultRadius == Num(100 * DefaultQueryRadiusKm)
maxRadius == Num(100 * MaxQueryRadiusKm)
\* limit: searchParams.limit || 50
DefaultLimit == 50

False == [type |-> "boolean", bool |-> FALSE]

Str(text) == [type |-> "string", text |-> text]

GoodParams ==
    [latitude |-> Num(407128), longitude |-> Num(-740060), radius |-> Num(500),
     limit |-> Undefined, useCache |-> Undefined, category |-> Undefined]

SearchParams ==
    { GoodParams }
        \cup { [GoodParams EXCEPT !.radius = r] :
                  r \in { Num(0), Num(-500), Num(100 * MaxQueryRadiusKm + 1), Undefined } }
        \cup { [GoodParams EXCEPT !.latitude = Num(900001)],
               [GoodParams EXCEPT !.longitude = Num(-1800001)],
               [GoodParams EXCEPT !.limit = Num(1)],
               [GoodParams EXCEPT !.useCache = False],
               [GoodParams EXCEPT !.category = Str("restaurant")],
               [GoodParams EXCEPT !.category = Str("cafe")] }

\* search, the validation part: the first failed validation, or the arguments of
\* executeQuery
searchValidation(searchParams) ==
    LET latValidation == validateLatitude(searchParams.latitude)
        lngValidation == validateLongitude(searchParams.longitude)
        radius == orElse(searchParams.radius, defaultRadius)
        radiusValidation == validateRadius(radius, maxRadius)
    IN  IF ~ latValidation.valid THEN [valid |-> FALSE, error |-> latValidation.error]
        ELSE IF ~ lngValidation.valid THEN [valid |-> FALSE, error |-> lngValidation.error]
        ELSE IF ~ radiusValidation.valid
             THEN [valid |-> FALSE, error |-> radiusValidation.error]
        ELSE [valid |-> TRUE,
              query |-> [lat |-> latValidation.value, lng |-> lngValidation.value,
                         radiusKm |-> radiusValidation.value]]

\* the options search hands to executeQuery
searchOptions(searchParams) ==
    [useCache |-> searchParams.useCache # False,
     decrypt |-> TRUE,
     limit |-> orElse(searchParams.limit, Num(DefaultLimit)).num]

\* The calls in flight at an await are continued by the event loop: a call whose
\* awaited promise has resolved runs on before any new call is taken up.
\* pending: the initialize() calls waiting for getEncryptedPOIs ("load"), and the
\* search calls whose initialize() has returned ("built").
InitializeCall == [call |-> "initialize", phase |-> "load"]
SearchCall(searchParams) == [call |-> "search", params |-> searchParams, phase |-> "load"]

Idle ==
    /\ filtering = Null
    /\ \A i \in 1 .. Len(pending) : pending[i].phase = "load"

\* SearchService.initialize called: it waits for the collection
ServiceInitialize ==
    /\ Idle
    /\ Len(pending) < MaxPending
    /\ pending' = Append(pending, InitializeCall)
    /\ ret' = [op |-> "initialize"]
    /\ UNCHANGED <<cacheVars, indexVars, now, db, isInitialized, filtering>>

\* SearchService.refresh: the flag and the cache are reset, then initialize()
ServiceRefresh ==
    /\ Idle
    /\ Len(pending) < MaxPending
    /\ isInitialized' = FALSE
    /\ queryCache' = << >>
    /\ run' = EmptyRun
    /\ pending' = Append(pending, InitializeCall)
    /\ ret' = [op |-> "refresh"]
    /\ UNCHANGED <<cacheMaxSize, cacheMaxAge, indexVars, now, db, filtering>>

\* initialize, from await this.poiManager.getEncryptedPOIs() on: the index is
\* built from the collection and the flag set. An initialize() made by search
\* returns into that call.
InitializeBuilds(i) ==
    /\ Idle
    /\ i \in 1 .. Len(pending)
    /\ buildIndex(db, 1)
    /\ isInitialized' = TRUE
    /\ pending' = IF pending[i].call = "search"
                  THEN [pending EXCEPT ![i].phase = "built"]
                  ELSE RemoveAt(pending, i)
    /\ UNCHANGED <<cacheVars, now, db, filtering>>

\* search, after executeQuery has resolved: with a category and a successful
\* result, the filter is still to run on the object returned, which is the
\* object in the cache when the cache was used
afterExecuteQuery(searchParams) ==
    filtering' =
        IF ~ Falsy(searchParams.category) /\ ret'.value.success
        THEN [params |-> searchParams, result |-> ret'.value,
              cached |-> searchOptions(searchParams).useCache]
        ELSE Null

\* SearchService.search. A failed validation returns at once. On a service not
\* yet initialized the call waits at await this.initialize() and goes on in
\* SearchResumes; otherwise it is the executeQuery call.
ServiceSearch(searchParams) ==
    LET validation == searchValidation(searchParams)
    IN  /\ Idle
        /\ IF ~ validation.valid
           THEN /\ ret' = [op |-> "search", params |-> searchParams,
                           value |-> [success |-> FALSE, error |-> validation.error]]
                /\ UNCHANGED <<serviceVars, cacheVars, indexVars, now>>
           ELSE IF isInitialized
           THEN /\ executeQuery(validation.query, searchOptions(searchParams))
                /\ afterExecuteQuery(searchParams)
                /\ UNCHANGED <<db, isInitialized, pending>>
           ELSE /\ Len(pending) < MaxPending
                /\ pending' = Append(pending, SearchCall(searchParams))
                /\ ret' = [op |-> "search awaits initialize", params |-> searchParams]
                /\ UNCHANGED <<cacheVars, indexVars, now, db, isInitialized, filtering>>

\* search, from await this.initialize() on
SearchResumes(i) ==
    /\ filtering = Null
    /\ i \in 1 .. Len(pending)
    /\ pending[i].phase = "built"
    /\ executeQuery(searchValidation(pending[i].params).query,
                    searchOptions(pending[i].params))
    /\ afterExecuteQuery(pending[i].params)
    /\ pending' = RemoveAt(pending, i)
    /\ UNCHANGED <<db, isInitialized>>

\* result.results.filter(poi => poi.category === searchParams.category)
filterByCategory(results, category) ==
    SelectSeq(results, LAMBDA poi : poi.category = category.text)

\* search, the category filter: result.results and result.metadata.returnedCount
\* are assigned on the object executeQuery returned
SearchFilters ==
    /\ filtering # Null
    /\ LET result == filtering.result
           results == filterByCategory(result.results, filtering.params.category)
           filtered == [result EXCEPT !.results = results,
                                      !.metadata.returnedCount = Len(results)]
       IN  /\ ret' = [op |-> "search", params |-> filtering.params, value |-> filtered]
           /\ queryCache' =
                 IF filtering.cached
                 THEN [j \in 1 .. Len(queryCache) |->
                          IF queryCache[j].key = result.queryId
                          THEN [queryCache[j] EXCEPT !.result = filtered]
                          ELSE queryCache[j]]
                 ELSE queryCache
    /\ filtering' = Null
    /\ UNCHANGED <<cacheMaxSize, cacheMaxAge, run, indexVars, now, db, isInitialized, pending>>

\* poiData handed to uploadPOI: nameLength is the length of the trimmed name
GoodPOIData ==
    [nameLength |-> 4, latitude |-> Num(407128), longitude |-> Num(-740060),
     category |-> "restaurant"]

POIData ==
    { GoodPOIData,
      [GoodPOIData EXCEPT !.nameLength = 1],
      [GoodPOIData EXCEPT !.latitude = Num(900001)] }

\* validatePOI: every failed check adds its message
validatePOI(poi) ==
    LET latValidation == validateLatitude(poi.latitude)
        lngValidation == validateLongitude(poi.longitude)
        errors == (IF poi.nameLength < 2
                   THEN <<"POI name must be at least 2 characters">> ELSE << >>)
                  \o (IF ~ latValidation.valid THEN <<latValidation.error>> ELSE << >>)
                  \o (IF ~ lngValidation.valid THEN <<lngValidation.error>> ELSE << >>)
                  \o (IF poi.category = "" THEN <<"Category is required">> ELSE << >>)
    IN  IF Len(errors) > 0 THEN [valid |-> FALSE, errors |-> errors]
        ELSE [valid |-> TRUE,
              value |-> [latitude |-> latValidation.value,
                         longitude |-> lngValidation.value,
                         category |-> poi.category]]

\* createBoundingBox: the point of the first two encrypted coordinates
createBoundingBox(encryptedPoint) ==
    Box(encryptedPoint.encryptedCoords[1], encryptedPoint.encryptedCoords[2],
        encryptedPoint.encryptedCoords[1], encryptedPoint.encryptedCoords[2])

\* the document uploadPOI stores: the plaintext position is not part of it
poiDocument(poiId, validatedPOI) ==
    LET encryptedLocation == [encryptedCoords |-> <<0, 0, 0, 0>>]
    IN  [id |-> poiId,
         encryptedBoundingBox |-> createBoundingBox(encryptedLocation),
         encryptedLocation |-> encryptedLocation,
         encryptedName |-> "ok", category |-> validatedPOI.category,
         hasOriginal |-> FALSE, originalLat |-> 0, originalLng |-> 0]

\* POIManager.uploadPOI: uuidv4() gives an id no document has; stored is whether
\* setDoc resolves
UploadPOI(poiData, stored) ==
    LET validation == validatePOI(poiData)
        poiId == Len(db) + 1
    IN  /\ Idle
        /\ IF ~ validation.valid
           THEN /\ ret' = [op |-> "uploadPOI",
                           value |-> [success |-> FALSE, errors |-> validation.errors]]
                /\ db' = db
           ELSE /\ Len(db) < MaxId
                /\ IF stored
                   THEN /\ db' = Append(db, poiDocument(poiId, validation.value))
                        /\ ret' = [op |-> "uploadPOI",
                                   value |-> [success |-> TRUE, poiId |-> poiId]]
                   ELSE /\ db' = db
                        /\ ret' = [op |-> "uploadPOI",
                                   value |-> [success |-> FALSE, error |-> "setDoc failed"]]
        /\ UNCHANGED <<cacheVars, indexVars, now, isInitialized, pending, filtering>>

\* ---------------------------------------------------------------- service specification
InitService ==
    /\ queryCache = << >>
    /\ cacheMaxSize = MaxCap
    /\ cacheMaxAge = MaxAge
    /\ now = 0
    /\ ret = [op |-> "new"]
    /\ run = BrokenRun
    /\ InitIndexVars
    /\ InitServiceVars

NextService ==
    \/ \E poiData \in POIData, stored \in BOOLEAN : UploadPOI(poiData, stored)
    \/ ServiceInitialize
    \/ ServiceRefresh
    \/ \E i \in 1 .. MaxPending : InitializeBuilds(i)
    \/ \E searchParams \in SearchParams : ServiceSearch(searchParams)
    \/ \E i \in 1 .. MaxPending : SearchResumes(i)
    \/ SearchFilters

SpecService == InitService /\ [][NextService]_vars

\* the step just taken was a call of op (every call leaves its name in ret; the
\* clock advancing leaves ret alone)
Called(op) == ret'.op = op /\ now' = now

\* ---------------------------------------------------------------- claims: cache
\* C1: from an empty cache of capacity N, N+1 cacheResult calls with distinct keys
\* and no expiry in between evict exactly the first-inserted key: a read of it
\* gives null, the N later keys are the ones left, and a read of each gives the
\* result stored for it (while it has not aged out).
C1_EvictsFirstInserted ==
    (run.ok /\ Len(run.calls) = cacheMaxSize + 1) =>
        /\ getCachedResultValue(queryCache, cacheMaxAge, now, run.calls[1].key) = Null
        /\ MapKeys(queryCache) = { run.calls[i].key : i \in 2 .. Len(run.calls) }
        /\ \A i \in 2 .. Len(run.calls) :
              now - MapEntry(queryCache, run.calls[i].key).timestamp <= cacheMaxAge =>
                getCachedResultValue(queryCache, cacheMaxAge, now, run.calls[i].key)
                    = run.calls[i].result

C1_Witness ==
    /\ run.ok
    /\ Len(run.calls) = cacheMaxSize + 1
    /\ cacheMaxSize >= 2
    /\ ret.op = "getCachedResult"
    /\ ret.key = run.calls[1].key
    /\ ret.value = Null

\* C2: cacheResult(K, R) and then getCachedResult(K), with no cache write between
\* them and the entry's age not above cacheMaxAge, returns R.
C2_RoundTrip ==
    [][ ( /\ ret.op = "cacheResult"
          /\ ret'.op = "getCachedResult"
          /\ ret'.key = ret.key
          /\ now - MapEntry(queryCache, ret.key).timestamp <= cacheMaxAge )
        => ret'.value = ret.result ]_vars

C2_Witness ==
    /\ ret.op = "getCachedResult"
    /\ ret.outcome = "hit"
    /\ run.ok
    /\ Len(run.calls) >= 1
    /\ run.calls[Len(run.calls)].key = ret.key
    /\ ret.value = run.calls[Len(run.calls)].result
    /\ now = MapEntry(queryCache, ret.key).timestamp + cacheMaxAge

\* C3: expiry is by age and lazy. A getCachedResult(K) that finds K's entry older
\* than cacheMaxAge returns null and removes that entry, however full the cache
\* is; it removes no other entry, and the clock advancing removes none.
C3_LazyExpiry ==
    [][ /\ ( /\ now' = now
             /\ ret'.op = "getCachedResult"
             /\ MapHas(queryCache, ret'.key)
             /\ now - MapEntry(queryCache, ret'.key).timestamp > cacheMaxAge )
           => ( /\ ret'.value = Null
                /\ ~ MapHas(queryCache', ret'.key) )
        /\ ( now' = now /\ ret'.op = "getCachedResult" )
           => \A k \in MapKeys(queryCache) \ { ret'.key } :
                 /\ MapHas(queryCache', k)
                 /\ MapEntry(queryCache', k) = MapEntry(queryCache, k)
        /\ ( now' # now ) => queryCache' = queryCache ]_vars

C3_Witness ==
    /\ ret.op = "getCachedResult"
    /\ ret.outcome = "expired"
    /\ ret.value = Null
    /\ ~ MapHas(queryCache, ret.key)
    /\ Len(queryCache) >= 1

\* C11: with cacheMaxSize fixed at N >= 1, no sequence of cacheResult,
\* getCachedResult and clearCache calls (the only cache accesses executeQuery
\* makes are these) leaves more than N entries in the query cache.
C11_CacheBounded ==
    /\ cacheMaxSize >= 1
    /\ Len(queryCache) <= cacheMaxSize

\* a full cache right after a cacheResult that had to evict
C11_Witness ==
    /\ ret.op = "cacheResult"
    /\ cacheMaxSize >= 2
    /\ Len(queryCache) = cacheMaxSize
    /\ run.ok
    /\ Len(run.calls) > cacheMaxSize

\* C29: cacheResult removes an entry only when the insert would take the cache
\* over capacity (the key is new and the cache is full), it removes one entry,
\* and that entry is the one with the oldest stored timestamp; so re-caching a
\* key already present removes no other key's entry, and an entry refreshed by
\* re-caching is not evicted while older entries remain.
C29_EvictsOldestOnlyWhenFull ==
    [][ \A k \in CacheKeys, res \in Payloads :
          CacheResult(k, res) =>
              LET removed == MapKeys(queryCache) \ MapKeys(queryCache')
              IN  /\ removed # { } =>
                        ~ MapHas(queryCache, k) /\ Len(queryCache) >= cacheMaxSize
                  /\ Cardinality(removed) <= 1
                  /\ \A r \in removed, i \in 1 .. Len(queryCache) :
                        MapEntry(queryCache, r).timestamp <= queryCache[i].timestamp ]_vars

\* ---------------------------------------------------------------- claims: executeQuery
\* C4: executeQuery with useCache not false that finds a live entry for the
\* query's fingerprint returns that entry's result and does nothing else: no token,
\* no index search (queryCount as before), no predicate evaluation, no cache
\* write, no logQuery.
C4_CacheHitShortCircuits ==
    [][ \A q \in Queries, options \in QueryOptions :
          LET queryId == generateQueryId(q.lat, q.lng, q.radiusKm)
          IN  ( /\ options.useCache
                /\ Called("executeQuery")
                /\ ret'.query = q
                /\ MapHas(queryCache, queryId)
                /\ now - MapEntry(queryCache, queryId).timestamp <= cacheMaxAge
                /\ ExecuteQuery(q, options) )
              => ( /\ ret'.value = MapEntry(queryCache, queryId).result
                   /\ ret'.stages = << >>
                   /\ indexStats' = indexStats
                   /\ tree' = tree
                   /\ poiMap' = poiMap
                   /\ queryCache' = queryCache ) ]_vars

\* a hit on an entry that is not the newest one, at the last tick of its life
C4_Witness ==
    /\ ret.op = "executeQuery"
    /\ ret.stages = << >>
    /\ Len(ret.value.results) >= 1
    /\ Len(queryCache) = 2
    /\ queryCache[1].key = ret.value.queryId
    /\ queryCache[1].result = ret.value
    /\ now = queryCache[1].timestamp + cacheMaxAge
    /\ indexStats.queryCount = 2

C5_WitnessDecrypt ==
    /\ ret.op = "executeQuery"
    /\ ret.thrown = "Decryption failed"
    /\ ret.value.error = "Decryption failed"

C5_WitnessLog ==
    /\ ret.op = "executeQuery"
    /\ ret.thrown = "log failed"
    /\ ret.value.error = "log failed"
    /\ MapHas(queryCache, ret.value.queryId)

\* the token's matches in the index as it stands, for query q
MatchesOf(q, encryptedQuery, encryptedBounds) ==
    LET token == generateQueryToken(q, encryptedQuery, encryptedBounds, now, now)
    IN  { poi \in SeqToSet(searchResults(tree, poiMap, encryptedBounds)) :
            /\ poi.encryptedLocation # Null
            /\ evaluatePredicate(poi.encryptedLocation, token) }

\* value is what the claim says a call for q with limit L returns: for some token
\* the call may have drawn, the L nearest of all the token's matches, nearest
\* first, with metadata that counts them
LimitedRanking(q, L, value) ==
    \E encryptedQuery \in QueryVectors, encryptedBounds \in TokenBounds :
        LET matches == MatchesOf(q, encryptedQuery, encryptedBounds)
            dist(poi) == calculateApproxDistance(poi, q.lat, q.lng)
            results == value.results
            returned == { results[i].id : i \in 1 .. Len(results) }
            min == IF L < Cardinality(matches) THEN L ELSE Cardinality(matches)
        IN  /\ Len(results) = min
            /\ \A i \in 1 .. Len(results) : "distance" \in DOMAIN results[i]
            /\ Cardinality(returned) = Len(results)
            /\ returned \subseteq { poi.id : poi \in matches }
            /\ \A i \in 1 .. Len(results) :
                  \E poi \in matches : poi.id = results[i].id /\ results[i].distance = dist(poi)
            /\ \A i, j \in 1 .. Len(results) :
                  i < j => results[i].distance <= results[j].distance
            /\ \A poi \in matches :
                  poi.id \notin returned =>
                     \A i \in 1 .. Len(results) : results[i].distance <= dist(poi)
            /\ value.metadata.matchingCount = Cardinality(matches)
            /\ value.metadata.returnedCount = min
            /\ value.metadata.matchingCount <= value.metadata.totalCandidates

\* the entry for q's fingerprint is there and not over age
LiveEntry(q) ==
    LET queryId == generateQueryId(q.lat, q.lng, q.radiusKm)
    IN  /\ MapHas(queryCache, queryId)
        /\ now - MapEntry(queryCache, queryId).timestamp <= cacheMaxAge

\* C16 as claimed: every successful executeQuery with decryption and limit L
\* returns the first L of all matching POIs sorted by distance, with
\* returnedCount = min(L, matchingCount) and matchingCount <= totalCandidates.
C16_LimitAfterRankingAlways ==
    [][ \A q \in Queries, options \in QueryOptions :
          ( /\ options.decrypt
            /\ options.limit # 0
            /\ Called("executeQuery")
            /\ ret'.query = q
            /\ ret'.value.success
            /\ ExecuteQuery(q, options) )
          => LimitedRanking(q, options.limit, ret'.value) ]_vars

\* C16 for computed results: the same for every such call that is not served
\* from the cache (holds; the hits are what C26 and C27 are about).
C16_LimitAfterRanking ==
    [][ \A q \in Queries, options \in QueryOptions :
          ( /\ options.decrypt
            /\ options.limit # 0
            /\ Called("executeQuery")
            /\ ret'.query = q
            /\ ret'.value.success
            /\ ~ ( options.useCache /\ LiveEntry(q) )
            /\ ExecuteQuery(q, options) )
          => LimitedRanking(q, options.limit, ret'.value) ]_vars

\* two matches, the nearer one second in the index, and a limit of one
C16_Witness ==
    /\ ret.op = "executeQuery"
    /\ ret.thrown = "none"
    /\ \E i \in 1 .. Len(ret.stages) : ret.stages[i] = "rank"
    /\ \E i \in 1 .. Len(ret.stages) : ret.stages[i] = "limit"
    /\ ret.value.metadata.matchingCount = 2
    /\ Len(ret.value.results) = 1
    /\ ret.value.results[1].id = MaxId

\* the stages of the claim for a call with these options, in the claim's order:
\* decryption and ranking with decrypt, truncation with a limit, the cache store
\* with useCache
ClaimStages(options) ==
    <<"token", "search", "evaluate">>
        \o (IF options.decrypt THEN <<"decrypt", "rank">> ELSE << >>)
        \o (IF options.limit # 0 THEN <<"limit">> ELSE << >>)
        \o (IF options.useCache THEN <<"cacheStore">> ELSE << >>)
        \o <<"log">>

\* C21: a successful executeQuery call not served from the cache runs its stages
\* once each in the order token, index search, predicate evaluation, decryption
\* and ranking (with decrypt), limit truncation (with a limit), cache store, query
\* logging: the index is searched exactly once, and the result is stored in the
\* cache exactly when options.useCache is not false.
C21_StagesInOrder ==
    [][ \A q \in Queries, options \in QueryOptions :
          LET queryId == generateQueryId(q.lat, q.lng, q.radiusKm)
          IN  ( /\ Called("executeQuery")
                /\ ret'.query = q
                /\ ret'.stages # << >>
                /\ ret'.value.success
                /\ ret'.options = options
                /\ ExecuteQuery(q, options) )
              => ( /\ ret'.stages = ClaimStages(options)
                   /\ indexStats'.queryCount = indexStats.queryCount + 1
                   /\ options.useCache =>
                         /\ MapHas(queryCache', queryId)
                         /\ MapEntry(queryCache', queryId).result = ret'.value
                         /\ MapEntry(queryCache', queryId).timestamp = now
                   /\ ~ options.useCache => queryCache' = queryCache ) ]_vars

\* a call that ran every stage: decryption, ranking, truncation and cache store
C21_Witness ==
    /\ ret.op = "executeQuery"
    /\ ret.value.success
    /\ ret.stages = <<"token", "search", "evaluate", "decrypt", "rank", "limit",
                      "cacheStore", "log">>
    /\ ret.value.metadata.matchingCount = 2
    /\ MapHas(queryCache, ret.value.queryId)

Min(a, b) == IF a < b THEN a ELSE b

\* C26: every successful executeQuery call with options.limit = L > 0 returns
\* exactly min(L, number of matching POIs) results, served from the cache or not,
\* and in the form its decrypt setting asks for: a result cached under another
\* limit or decrypt setting is never returned.
C26_LimitHonouredOnHits ==
    [][ \A q \in Queries, options \in QueryOptions :
          ( /\ options.limit # 0
            /\ Called("executeQuery")
            /\ ret'.query = q
            /\ ret'.value.success
            /\ ExecuteQuery(q, options) )
          => LET results == ret'.value.results
             IN  /\ Len(results) = Min(options.limit, ret'.value.metadata.matchingCount)
                 /\ \A i \in 1 .. Len(results) :
                       ("distance" \in DOMAIN results[i]) = options.decrypt ]_vars

\* C27: after initialize(P) has rebuilt the index, every successful executeQuery
\* with caching enabled returns a result of the current index: its candidates
\* and matches are counted on the index as it stands and the POIs returned are
\* among those matches, never a result computed on the previous contents.
C27_NoStaleResults ==
    [][ \A q \in Queries, options \in QueryOptions :
          ( /\ options.useCache
            /\ Called("executeQuery")
            /\ ret'.query = q
            /\ ret'.value.success
            /\ ExecuteQuery(q, options) )
          => \E encryptedQuery \in QueryVectors, encryptedBounds \in TokenBounds :
                LET matches == MatchesOf(q, encryptedQuery, encryptedBounds)
                    results == ret'.value.results
                IN  /\ { results[i].id : i \in 1 .. Len(results) }
                           \subseteq { poi.id : poi \in matches }
                    /\ ret'.value.metadata.totalCandidates
                           = Len(searchResults(tree, poiMap, encryptedBounds))
                    /\ ret'.value.metadata.matchingCount = Cardinality(matches) ]_vars

\* C28: a failed executeQuery call, a rejected logQuery included, leaves the
\* query cache without a new or replaced entry for the query's fingerprint.
C28_FailureLeavesCache ==
    [][ \A q \in Queries, options \in QueryOptions :
          LET queryId == generateQueryId(q.lat, q.lng, q.radiusKm)
          IN  ( /\ Called("executeQuery")
                /\ ret'.query = q
                /\ ~ ret'.value.success
                /\ ExecuteQuery(q, options) )
              => ( MapHas(queryCache', queryId)
                     => /\ MapHas(queryCache, queryId)
                        /\ MapEntry(queryCache', queryId) = MapEntry(queryCache, queryId) ) ]_vars

\* ---------------------------------------------------------------- claims: functions
\* C12: every token generateQueryToken returns has expiresAt = timestamp + 300000,
\* whatever the clock reads during the call.
C12_ExpiryIsCreationPlusTTL ==
    ret.op = "generateQueryToken" =>
        ret.value.expiresAt = ret.value.timestamp + 300000

RECURSIVE ClaimSum(_, _, _)
ClaimSum(a, b, n) == IF n = 0 THEN 0 ELSE a[n] * b[n] + ClaimSum(a, b, n - 1)

\* C13: evaluatePredicate is true exactly when the sum of encryptedCoords[i] *
\* encryptedQuery[i] over the first min(length of encryptedCoords, 4) components is
\* at most radiusNormalized^2 * 0.5 (for radiusNormalized = num / den:
\* 2 * sum * den^2 <= num^2), equality included, vectors of other lengths
\* truncated and not refused.
C13_PredicateIff ==
    ret.op = "evaluatePredicate" =>
        LET n == IF Len(ret.coords) < 4 THEN Len(ret.coords) ELSE 4
            sum == ClaimSum(ret.coords, ret.token.encryptedQuery, n)
            rn == ret.token.radiusNormalized
        IN  ret.value <=> ( 2 * sum * rn.den * rn.den <= rn.num * rn.num )

\* a match at equality, on coordinates longer than the four that count
C13_Witness ==
    /\ ret.op = "evaluatePredicate"
    /\ Len(ret.coords) = 5
    /\ ret.token.radiusNormalized.num = 2
    /\ 2 * ClaimSum(ret.coords, ret.token.encryptedQuery, 4) = 4
    /\ ret.value

\* the nearest multiple of d to x, as a count of d's; a tie goes up
ClaimRound(x, d) ==
    CHOOSE k \in ((x \div d) - 1) .. ((x \div d) + 1) : 2 * (d * k - x) \in (1 - d) .. d

ClaimFingerprint(call) ==
    <<ClaimRound(call.lat, 10), ClaimRound(call.lng, 10), ClaimRound(call.radius, 10)>>

\* C15: generateQueryId(lat, lng, radius) is lat and lng rounded to 3 decimals
\* and radius rounded to 1 decimal, joined; two calls give the same fingerprint
\* exactly when their three rounded values are equal, whenever they are made.
C15_Fingerprint ==
    [][ ret'.op = "generateQueryId" =>
          /\ ret'.value = ClaimFingerprint(ret')
          /\ ret.op = "generateQueryId" =>
                ( ret.value = ret'.value <=> ClaimFingerprint(ret) = ClaimFingerprint(ret') ) ]_vars

\* all three inputs on a rounding tie, after the clock has moved
C15_Witness ==
    /\ ret.op = "generateQueryId"
    /\ ret.lat = 407125
    /\ ret.lng = -740065
    /\ ret.radius = 495
    /\ ret.value = <<40713, -74006, 50>>
    /\ now >= 1

\* C17: validateRadius(r, max) is valid exactly when r parses to a number with
\* 0 < r <= max, max being 50 km when omitted; every other input comes back
\* invalid with an error message, never as an exception.
C17_ValidateRadius ==
    ret.op = "validateRadius" =>
        LET r == parseFloat(ret.radius)
            max == IF ret.maxRadius = Undefined THEN 100 * 50 ELSE ret.maxRadius.num
            ok == r.type = "number" /\ 0 < r.num /\ r.num <= max
        IN  /\ ret.value.valid <=> ok
            /\ ret.value.valid => ret.value = [valid |-> TRUE, value |-> r.num]
            /\ ~ ret.value.valid =>
                  /\ DOMAIN ret.value = { "valid", "error" }
                  /\ ret.value.error # ""

\* the default maximum itself is accepted
C17_Witness ==
    /\ ret.op = "validateRadius"
    /\ ret.maxRadius = Undefined
    /\ ret.radius = Num(5000)
    /\ ret.value.valid

C17_WitnessZero ==
    /\ ret.op = "validateRadius"
    /\ ret.radius = Num(0)
    /\ ~ ret.value.valid

\* C22: every cell of the derived matrices lies in [0, 1): for every 32-bit value
\* taken from the first 8 hex digits of the cell's hash, the cell is at least 0
\* and strictly less than 1.
C22_CellInUnitInterval ==
    ret.op = "matrixCell" =>
        /\ ~ Less32(ret.value.num, <<0, 0>>)
        /\ Less32(ret.value.num, ret.value.den)

\* C23: calculateApproxDistance returns 0 for a POI without original coordinates,
\* and for every POI that has them, a latitude or longitude of 0 included, the
\* distance from those coordinates to the query center.
C23_DistanceOrZero ==
    ret.op = "calculateApproxDistance" =>
        ret.value = IF ~ ret.poi.hasOriginal THEN 0
                    ELSE Abs(ret.poi.originalLat - ret.query.lat)
                         + Abs(ret.poi.originalLng - ret.query.lng)

\* ---------------------------------------------------------------- claims: service
\* a radius the boundary has to reject: 0, negative, or above maxRadius
BadRadius(radius) ==
    radius.type = "number" /\ (radius.num <= 0 \/ radius.num > maxRadius.num)

ValidQuery(q) ==
    /\ -900000 <= q.lat /\ q.lat <= 900000
    /\ -1800000 <= q.lng /\ q.lng <= 1800000
    /\ 0 < q.radiusKm /\ q.radiusKm <= maxRadius.num

\* C18: SearchService.search called with a radius of 0, a negative radius or a
\* radius above maxRadius returns a failed result and does not invoke
\* executeQuery; and executeQuery is only ever invoked with latitude in
\* [-90, 90], longitude in [-180, 180] and 0 < radius <= maxRadius.
C18_BoundaryRejectsBadRadii ==
    [][/\ \A searchParams \in SearchParams :
              BadRadius(searchParams.radius) /\ ServiceSearch(searchParams)
                  => /\ ret'.op = "search"
                     /\ ret'.params = searchParams
                     /\ ~ ret'.value.success
                     /\ pending' = pending
       /\ Called("executeQuery") => ValidQuery(ret'.query)]_vars

\* C20: after uploadPOI has returned success for a POI, that POI is in the
\* spatial index the searches of an initialized service use, with no rebuild or
\* refresh in between.
C20_UploadUpdatesIndex ==
    ret.op = "uploadPOI" /\ ret.value.success /\ isInitialized
        => MapHas(poiMap, ret.value.poiId)

\* C25: a cached result is immutable once stored: whatever runs later, the
\* category filter of search included, an entry that stays in the cache keeps
\* the results list and the returnedCount it was stored with, which is what a
\* later hit on it returns.
C25_CachedResultImmutable ==
    [][ \A i \in 1 .. Len(queryCache), j \in 1 .. Len(queryCache') :
          ( /\ queryCache'[j].key = queryCache[i].key
            /\ queryCache'[j].timestamp = queryCache[i].timestamp )
          => ( /\ queryCache'[j].result.results = queryCache[i].result.results
               /\ queryCache'[j].result.metadata.returnedCount
                     = queryCache[i].result.metadata.returnedCount ) ]_vars

\* C30: for search calls that arrive before the service is initialized, the
\* load and index build run at most once (no such call builds the index of a
\* service already initialized), every such call's query runs on a built index,
\* and isInitialized is true only after a build has completed.
C30_InitializesOnce ==
    /\ [](isInitialized => indexStats.lastBuildTime # Null)
    /\ [][ \A i \in 1 .. Len(pending) :
             /\ (pending[i].call = "search" /\ InitializeBuilds(i)) => ~ isInitialized
             /\ SearchResumes(i) => isInitialized /\ indexStats.lastBuildTime # Null ]_vars

\* ---------------------------------------------------------------- claims: index
TreeIdsDistinct == \A i, j \in 1 .. Len(tree) : tree[i].id = tree[j].id => i = j

\* the query box of the claim: per axis, the smaller and the larger of the two corners
ClaimBox(b) ==
    LET lo(i) == IF b.encryptedMin[i] < b.encryptedMax[i]
                 THEN b.encryptedMin[i] ELSE b.encryptedMax[i]
        hi(i) == IF b.encryptedMin[i] < b.encryptedMax[i]
                 THEN b.encryptedMax[i] ELSE b.encryptedMin[i]
    IN  Box(lo(1), lo(2), hi(1), hi(2))

\* the box a record is stored under
StoredBox(poi) ==
    IF poi.encryptedBoundingBox # Null
    THEN poi.encryptedBoundingBox
    ELSE Box(poi.encryptedLocation.encryptedCoords[1], poi.encryptedLocation.encryptedCoords[2],
             poi.encryptedLocation.encryptedCoords[1], poi.encryptedLocation.encryptedCoords[2])

Disjoint(a, b) ==
    \/ a.maxX < b.minX
    \/ b.maxX < a.minX
    \/ a.maxY < b.minY
    \/ b.maxY < a.minY

Swapped(b) == [encryptedMin |-> b.encryptedMax, encryptedMax |-> b.encryptedMin]

IndexedRecords == { poiMap[i].value : i \in 1 .. Len(poiMap) }

\* C6: with distinct ids in the index, search(bounds) returns exactly the records
\* whose stored box intersects the query box (per axis the min and the max of the
\* two corners), each once, and the same set when the two corners are swapped.
C6_SearchExact ==
    TreeIdsDistinct =>
        \A b \in AllBounds :
            LET found == searchResults(tree, poiMap, b)
            IN  /\ SeqToSet(found)
                     = { r \in IndexedRecords : ~ Disjoint(StoredBox(r), ClaimBox(b)) }
                /\ \A i, j \in 1 .. Len(found) : found[i] = found[j] => i = j
                /\ SeqToSet(searchResults(tree, poiMap, Swapped(b))) = SeqToSet(found)

C6_Witness ==
    /\ TreeIdsDistinct
    /\ Len(poiMap) = 2
    /\ ret.op = "search"
    /\ Len(ret.value) = 1
    /\ \E b \in AllBounds :
          /\ b.encryptedMin[1] > b.encryptedMax[1]
          /\ searchResults(tree, poiMap, b) = ret.value

\* C7: remove(id) of an id that is not in the index returns false and leaves the
\* tree, the id -> record map and every statistic as they were.
C7_RemoveUnknown ==
    [][ ( Called("remove") /\ ~ MapHas(poiMap, ret'.id) )
        => ( /\ ret'.value = FALSE
             /\ tree' = tree
             /\ poiMap' = poiMap
             /\ indexStats' = indexStats ) ]_vars

C7_Witness ==
    /\ ret.op = "remove"
    /\ ret.value = FALSE
    /\ Len(poiMap) >= 1
    /\ Len(tree) >= 1
    /\ indexStats.totalPOIs >= 1
    /\ indexStats.lastBuildTime # Null

\* C8: remove(id) of an id that is in the index returns true and takes exactly
\* one off totalPOIs; from then on no search, whatever its box, and no getAll
\* returns a record of that id, until insert or buildIndex adds the id again.
NotReturned(t, m, id) ==
    /\ \A b \in AllBounds :
          \A r \in SeqToSet(searchResults(t, m, b)) : r.id # id
    /\ \A r \in SeqToSet(getAllValue(m)) : r.id # id

C8_RemoveKnown ==
    /\ [] ( \A id \in Ids \ MapKeys(poiMap) : NotReturned(tree, poiMap, id) )
    /\ [][ /\ ( Called("remove") /\ MapHas(poiMap, ret'.id) )
               => ( /\ ret'.value = TRUE
                    /\ indexStats'.totalPOIs = indexStats.totalPOIs - 1
                    /\ ~ MapHas(poiMap', ret'.id)
                    /\ NotReturned(tree', poiMap', ret'.id) )
            /\ \A id \in Ids :
                 ( ~ MapHas(poiMap, id) /\ MapHas(poiMap', id) )
                   => \/ ( Called("insert") /\ ret'.poi.id = id )
                      \/ ( Called("buildIndex")
                           /\ \E r \in SeqToSet(ret'.pois) : r.id = id ) ]_vars

\* a removal that left another tree item of the same id behind
C8_Witness ==
    /\ ret.op = "remove"
    /\ ret.value = TRUE
    /\ \E i \in 1 .. Len(tree) : tree[i].id = ret.id

\* C9: buildIndex(P) discards all earlier index state: afterwards getAll returns
\* exactly the records of P, search returns no record outside P, totalPOIs is the
\* number of records in P and queryCount is 0.
C9_BuildReplacesAll ==
    ret.op = "buildIndex" =>
        /\ SeqToSet(getAllValue(poiMap)) = SeqToSet(ret.pois)
        /\ \A b \in AllBounds :
              SeqToSet(searchResults(tree, poiMap, b)) \subseteq SeqToSet(ret.pois)
        /\ indexStats.totalPOIs = Len(ret.pois)
        /\ ret.value.totalPOIs = Len(ret.pois)
        /\ indexStats.queryCount = 0

\* C10: queryCount goes up by exactly one on every search, whether or not
\* anything matches; insert, remove, getAll and getStats leave it alone; it only
\* goes down when buildIndex or clear sets it to 0.
C10_QueryCount ==
    [][ /\ Called("search") => indexStats'.queryCount = indexStats.queryCount + 1
        /\ ( Called("insert") \/ Called("remove") \/ Called("getAll") \/ Called("getStats") )
             => indexStats'.queryCount = indexStats.queryCount
        /\ indexStats'.queryCount < indexStats.queryCount
             => ( /\ Called("buildIndex") \/ Called("clear")
                  /\ indexStats'.queryCount = 0 ) ]_vars

C10_Witness ==
    /\ ret.op = "search"
    /\ Len(ret.value) = 0
    /\ Len(poiMap) >= 1
    /\ indexStats.queryCount = MaxQueryCount

\* the tree and the id-to-record map hold the same records: the ids of the tree
\* items are the keys of the map, and every item is the item of its id's record
TreeMatchesMap ==
    /\ { tree[i].id : i \in 1 .. Len(tree) } = MapKeys(poiMap)
    /\ \A i \in 1 .. Len(tree) :
          MapHas(poiMap, tree[i].id) => tree[i] = TreeItem(MapEntry(poiMap, tree[i].id).value)

\* C19: whatever buildIndex, insert, remove and clear calls have run before it,
\* every index search observes a whole index: the tree and the id-to-record map
\* it reads reflect the same set of records.
C19_SearchSeesWholeIndex ==
    [][\A encryptedBounds \in AllBounds : Search(encryptedBounds) => TreeMatchesMap]_vars

\* C24: after any sequence of buildIndex, insert, remove and clear calls, repeated
\* ids included, the index holds exactly one entry per indexed id: the tree holds
\* one item per id, the ids in the tree are the keys of the id-to-record map, and
\* stats.totalPOIs is the number of records getAll returns.
C24_OneEntryPerId ==
    /\ TreeIdsDistinct
    /\ { tree[i].id : i \in 1 .. Len(tree) } = MapKeys(poiMap)
    /\ indexStats.totalPOIs = Len(getAllValue(poiMap))

====
